---- MODULE Spec2Model ----
(***************************************************************************)
(* Booking capture flow of smart-move-navigator: the four-step booking     *)
(* wizard (Booking page), its offline queue in localStorage under the key  *)
(* 'pendingBookings', and the sync effect that runs when the page sees     *)
(* connectivity as online.                                                 *)
(* The admin car form (CarsManagement page) is a second specification,     *)
(* AdminSpec, over the variables of that page.                             *)
(***************************************************************************)
EXTENDS Integers, Sequences, FiniteSets, TLC

VARIABLES
    mounted,      \* the Booking page is mounted
    mounts,       \* number of times the page has been mounted
    step,         \* useState(0): index into STEPS
    booking,      \* useState<BookingData>
    isSubmitted,  \* useState(false)
    isOnline,     \* useOnlineStatus(): the connectivity signal
    storage,      \* localStorage item 'pendingBookings': <<>> absent, <<text>> present
    now,          \* wall clock, hours since the epoch (UTC)
    remoteAnswer, \* what the remote booking API would answer to createBooking
    remoteCalls,  \* createBooking calls made so far, <<record, answer>>
    uncaught,     \* exception that escaped the last event handler, "" if none
    \* admin page (CarsManagement)
    open,         \* useState(false): the car dialog is open
    editId,       \* useState(null): <<>> null, <<id>> the car being edited
    form,         \* useState(emptyForm)
    uploading,    \* useState(false)
    adminCars,    \* useState([]): the rows shown in the list
    toast,        \* title of the toast shown by the last step, "" if none
    uploads,      \* handleFileUpload calls waiting for the storage upload
    saves,        \* handleSave calls waiting for the insert or update
    fetching,     \* fetchCars calls waiting for the select
    db            \* rows of the backend table 'cars'

bookingVars == <<mounted, mounts, step, booking, isSubmitted, isOnline,
                 storage, now, remoteAnswer, remoteCalls, uncaught>>

adminVars == <<open, editId, form, uploading, adminCars, toast, uploads,
               saves, fetching, db>>

vars == <<mounted, mounts, step, booking, isSubmitted, isOnline, storage,
          now, remoteAnswer, remoteCalls, uncaught,
          open, editId, form, uploading, adminCars, toast, uploads,
          saves, fetching, db>>

(***************************************************************************)
(* Bounds of the model.                                                    *)
(***************************************************************************)
MaxMounts == 2          \* page mounts explored
MaxNow == 48            \* the clock stops ticking here (hours)
MaxDay == 2             \* last calendar day offered by the date picker
TzOffsetHours == 2      \* local time = UTC + TzOffsetHours
MaxUploads == 1         \* image uploads in flight
MaxSaves == 1           \* saves in flight
MaxFetches == 1         \* list fetches in flight

(***************************************************************************)
(* Catalog ('@/data/cars').                                                *)
(***************************************************************************)
cars == {"v1", "v2"}

pricePerHour == [c \in cars |-> IF c = "v1" THEN 20 ELSE 35]

\* getCarById(id): the car, or undefined (modelled as <<>>) when not found
getCarById(id) == IF id \in cars THEN <<id>> ELSE <<>>

\* values the `car` query parameter is tried with; "" is the absent parameter
UrlCarParams == {"", "v1", "zz"}

(***************************************************************************)
(* Inputs of the form controls.                                            *)
(***************************************************************************)
STEPS == <<"selectCar", "enterLocation", "selectDateTime", "confirm">>

HoursPerDay == 24
MaxDuration == 24

StartNow == HoursPerDay     \* the clock starts at day 1, 00:00 UTC
TickHours == HoursPerDay    \* one clock step

LocationInputs == {"", "Kigali"}
TimeChoices == {"09:00"}
DurationChoices == {3, MaxDuration}
DayChoices == 1..MaxDay
RemoteAnswers == {"success", "rejected", "unreachable"}

\* Date of local midnight of calendar day d, as an instant (UTC hours)
LocalMidnight(d) == d * HoursPerDay - TzOffsetHours

\* Date.prototype.toISOString(): the instant rendered in UTC (day, hour)
toISOString(instant) == <<instant \div HoursPerDay, instant % HoursPerDay>>

\* local calendar day of the current instant
Today == (now + TzOffsetHours) \div HoursPerDay

\* Calendar disabled={(date) => date < new Date()}
DateDisabled(d) == LocalMidnight(d) < now

(***************************************************************************)
(* Derived values of a render.                                             *)
(***************************************************************************)
selectedCar == IF booking.carId # "" THEN getCarById(booking.carId) ELSE <<>>

\* the hourly rate returned whatever the duration
calculatePrice_IgnoresDuration ==
    IF selectedCar = <<>> THEN 0
    ELSE pricePerHour[selectedCar[1]]

calculatePrice ==
    IF selectedCar = <<>> THEN 0
    ELSE pricePerHour[selectedCar[1]] * booking.duration

\* step 1 satisfied by either location, step 2 by the date alone
canProceed_OneFieldEnough ==
    CASE step = 0 -> booking.carId # ""
      [] step = 1 -> booking.pickupLocation # "" \/ booking.dropoffLocation # ""
      [] step = 2 -> booking.date # <<>>
      [] OTHER -> TRUE

canProceed ==
    CASE step = 0 -> booking.carId # ""
      [] step = 1 -> booking.pickupLocation # "" /\ booking.dropoffLocation # ""
      [] step = 2 -> booking.date # <<>> /\ booking.time # "" /\ booking.duration > 0
      [] OTHER -> TRUE

(***************************************************************************)
(* JSON text of the pending list.  An object is written with the keys      *)
(* whose value is defined; a key that is missing reads back as undefined.  *)
(***************************************************************************)
BookingKeys == {"carId", "pickupLocation", "dropoffLocation", "date", "time",
                "duration", "price", "createdAt"}

\* a writer that keeps only the day of the date
JSONstringifyObject_DateOnly(o) ==
    LET present == {k \in DOMAIN o : ~(k = "date" /\ o.date = <<>>)}
    IN  [k \in present |-> IF k = "date" THEN <<o.date[1][1], 0>> ELSE o[k]]

JSONstringifyObject(o) ==
    LET present == {k \in DOMAIN o : ~(k = "date" /\ o.date = <<>>)}
    IN  [k \in present |-> IF k = "date" THEN o.date[1] ELSE o[k]]

JSONparseObject(t) ==
    [k \in BookingKeys |->
        IF k = "date"
        THEN (IF "date" \in DOMAIN t THEN <<t.date>> ELSE <<>>)
        ELSE t[k]]

JSONstringify(list) == [i \in 1..Len(list) |-> JSONstringifyObject(list[i])]

JSONparse(text) == [i \in 1..Len(text) |-> JSONparseObject(text[i])]

\* JSON.parse(localStorage.getItem('pendingBookings') || '[]')
ReadPending(st) == IF st = <<>> THEN <<>> ELSE JSONparse(st[1])

\* the pending queue as the page reads it
Queue == ReadPending(storage)

(***************************************************************************)
(* handleSubmit                                                            *)
(***************************************************************************)
bookingData ==
    [carId |-> booking.carId,
     pickupLocation |-> booking.pickupLocation,
     dropoffLocation |-> booking.dropoffLocation,
     date |-> IF booking.date = <<>> THEN <<>>
              ELSE <<toISOString(LocalMidnight(booking.date[1]))>>,
     time |-> booking.time,
     duration |-> booking.duration,
     price |-> calculatePrice,
     createdAt |-> toISOString(now)]

\* a submit that never writes the pending list
SubmitStorage_NoPush(online, st) == st

\* a submit that writes the pending list whatever the connectivity
SubmitStorage_AlwaysPush(online, st) ==
    <<JSONstringify(Append(ReadPending(st), bookingData))>>

\* a submit that puts the new record at the head of the pending list
SubmitStorage_Prepends(online, st) ==
    IF ~online
    THEN <<JSONstringify(<<bookingData>> \o ReadPending(st))>>
    ELSE st

\* the value written to localStorage by a submit
SubmitStorage(online, st) ==
    IF ~online
    THEN <<JSONstringify(Append(ReadPending(st), bookingData))>>
    ELSE st

\* a submit that marks the wizard submitted before it writes the list
handleSubmit_SubmittedBeforeWrite ==
    /\ mounted /\ ~isSubmitted
    /\ step = Len(STEPS) - 1
    /\ \E writeOk \in BOOLEAN :
          IF isOnline \/ writeOk
          THEN /\ storage' = SubmitStorage(isOnline, storage)
               /\ isSubmitted' = TRUE
               /\ uncaught' = ""
          ELSE /\ storage' = storage
               /\ isSubmitted' = TRUE
               /\ uncaught' = "QuotaExceededError"
    /\ UNCHANGED adminVars
    /\ UNCHANGED <<mounted, mounts, step, booking, isOnline, now,
                   remoteAnswer, remoteCalls>>

\* the Confirm button is rendered at the last step of the form.  Offline,
\* localStorage.setItem either stores the list or throws (storage full or
\* denied); the exception leaves the handler before setIsSubmitted(true)
handleSubmit ==
    /\ mounted /\ ~isSubmitted
    /\ step = Len(STEPS) - 1
    /\ \E writeOk \in BOOLEAN :
          IF isOnline \/ writeOk
          THEN /\ storage' = SubmitStorage(isOnline, storage)
               /\ isSubmitted' = TRUE
               /\ uncaught' = ""
          ELSE /\ UNCHANGED <<storage, isSubmitted>>
               /\ uncaught' = "QuotaExceededError"
    /\ UNCHANGED adminVars
    /\ UNCHANGED <<mounted, mounts, step, booking, isOnline, now,
                   remoteAnswer, remoteCalls>>

(***************************************************************************)
(* Offline sync effect: useEffect(..., [isOnline])                         *)
(***************************************************************************)
SyncDrains(online, st) == online /\ Len(ReadPending(st)) > 0

\* a sync that logs the list and leaves it in place
SyncStorage_KeepsRecords(online, st) == st

SyncStorage(online, st) == IF SyncDrains(online, st) THEN <<<<>>>> ELSE st

(***************************************************************************)
(* What the page renders                                                   *)
(***************************************************************************)
\* a success screen that always shows the plain message
SubmittedNotice_AlwaysSuccess == "booking.successMessage"

\* the message under the title of the success screen
SubmittedNotice ==
    IF ~isOnline THEN "booking.offlineMessage" ELSE "booking.successMessage"

\* the fields the form names as missing while the Next button is blocked:
\* the button is rendered disabled and nothing is rendered about the reason
MissingFieldsShown == {}

(***************************************************************************)
(* Wizard navigation and field edits                                       *)
(***************************************************************************)
\* the form rendered even after the submit
FormShown_IgnoresSubmitted == mounted

FormShown == mounted /\ ~isSubmitted

WizardFrame ==
    /\ uncaught' = ""
    /\ UNCHANGED adminVars
    /\ UNCHANGED <<mounted, mounts, isSubmitted, isOnline, storage,
                   now, remoteAnswer, remoteCalls>>

\* a Next button that jumps over the following step
Advance_SkipsStep ==
    /\ FormShown
    /\ step < Len(STEPS) - 1
    /\ canProceed
    /\ step' = IF step + 2 <= Len(STEPS) - 1 THEN step + 2 ELSE Len(STEPS) - 1
    /\ UNCHANGED booking
    /\ WizardFrame

\* Next button: shown before the last step, disabled unless canProceed()
Advance ==
    /\ FormShown
    /\ step < Len(STEPS) - 1
    /\ canProceed
    /\ step' = step + 1
    /\ UNCHANGED booking
    /\ WizardFrame

\* a Previous button that also empties the locations
Retreat_ClearsLocations ==
    /\ FormShown
    /\ step > 0
    /\ step' = step - 1
    /\ booking' = [booking EXCEPT !.pickupLocation = "", !.dropoffLocation = ""]
    /\ WizardFrame

\* Previous button: shown when step > 0
Retreat ==
    /\ FormShown
    /\ step > 0
    /\ step' = step - 1
    /\ UNCHANGED booking
    /\ WizardFrame

SelectCar ==
    /\ FormShown /\ step = 0
    /\ \E c \in cars : booking' = [booking EXCEPT !.carId = c]
    /\ UNCHANGED step
    /\ WizardFrame

EditPickup ==
    /\ FormShown /\ step = 1
    /\ \E s \in LocationInputs : booking' = [booking EXCEPT !.pickupLocation = s]
    /\ UNCHANGED step
    /\ WizardFrame

EditDropoff ==
    /\ FormShown /\ step = 1
    /\ \E s \in LocationInputs : booking' = [booking EXCEPT !.dropoffLocation = s]
    /\ UNCHANGED step
    /\ WizardFrame

\* Calendar mode="single": a day that is not disabled, or the selected day
\* clicked again (onSelect(undefined))
SelectDate ==
    /\ FormShown /\ step = 2
    /\ \E d \in DayChoices :
          /\ ~DateDisabled(d)
          /\ booking' = [booking EXCEPT !.date = IF booking.date = <<d>> THEN <<>> ELSE <<d>>]
    /\ UNCHANGED step
    /\ WizardFrame

SelectTime ==
    /\ FormShown /\ step = 2
    /\ \E t \in TimeChoices : booking' = [booking EXCEPT !.time = t]
    /\ UNCHANGED step
    /\ WizardFrame

SelectDuration ==
    /\ FormShown /\ step = 2
    /\ \E d \in DurationChoices : booking' = [booking EXCEPT !.duration = d]
    /\ UNCHANGED step
    /\ WizardFrame

(***************************************************************************)
(* Page lifecycle, connectivity, clock, remote                             *)
(***************************************************************************)
\* a draft that starts with no duration
InitialBooking_ZeroDuration(car) ==
    [carId |-> car, pickupLocation |-> "", dropoffLocation |-> "",
     date |-> <<>>, time |-> "", duration |-> 0]

InitialBooking(car) ==
    [carId |-> car, pickupLocation |-> "", dropoffLocation |-> "",
     date |-> <<>>, time |-> "", duration |-> 1]

\* a first render whose sync effect does not run
Mount_SkipsSync ==
    /\ ~mounted
    /\ mounts < MaxMounts
    /\ mounted' = TRUE
    /\ mounts' = mounts + 1
    /\ step' = 0
    /\ \E car \in UrlCarParams : booking' = InitialBooking(car)
    /\ isSubmitted' = FALSE
    /\ storage' = storage
    /\ uncaught' = ""
    /\ UNCHANGED adminVars
    /\ UNCHANGED <<isOnline, now, remoteAnswer, remoteCalls>>

\* first render of the page followed by its effects
Mount ==
    /\ ~mounted
    /\ mounts < MaxMounts
    /\ mounted' = TRUE
    /\ mounts' = mounts + 1
    /\ step' = 0
    /\ \E car \in UrlCarParams : booking' = InitialBooking(car)
    /\ isSubmitted' = FALSE
    /\ storage' = SyncStorage(isOnline, storage)
    /\ uncaught' = ""
    /\ UNCHANGED adminVars
    /\ UNCHANGED <<isOnline, now, remoteAnswer, remoteCalls>>

\* navigate away (the back button of the success screen, any link, a reload):
\* the component state is discarded, localStorage stays
Unmount ==
    /\ mounted
    /\ mounted' = FALSE
    /\ step' = 0
    /\ booking' = InitialBooking("")
    /\ isSubmitted' = FALSE
    /\ uncaught' = ""
    /\ UNCHANGED adminVars
    /\ UNCHANGED <<mounts, isOnline, storage, now, remoteAnswer, remoteCalls>>

\* offline -> online; a mounted page re-renders and runs the sync effect
GoOnline ==
    /\ ~isOnline
    /\ isOnline' = TRUE
    /\ storage' = IF mounted THEN SyncStorage(TRUE, storage) ELSE storage
    /\ UNCHANGED adminVars
    /\ UNCHANGED <<mounted, mounts, step, booking, isSubmitted, now,
                   remoteAnswer, remoteCalls, uncaught>>

\* online -> offline; the effect runs and does nothing
GoOffline ==
    /\ isOnline
    /\ isOnline' = FALSE
    /\ storage' = IF mounted THEN SyncStorage(FALSE, storage) ELSE storage
    /\ UNCHANGED adminVars
    /\ UNCHANGED <<mounted, mounts, step, booking, isSubmitted, now,
                   remoteAnswer, remoteCalls, uncaught>>

Tick ==
    /\ now + TickHours <= MaxNow
    /\ now' = now + TickHours
    /\ UNCHANGED adminVars
    /\ UNCHANGED <<mounted, mounts, step, booking, isSubmitted, isOnline,
                   storage, remoteAnswer, remoteCalls, uncaught>>

SetRemoteAnswer ==
    /\ \E a \in RemoteAnswers : a # remoteAnswer /\ remoteAnswer' = a
    /\ UNCHANGED adminVars
    /\ UNCHANGED <<mounted, mounts, step, booking, isSubmitted, isOnline,
                   storage, now, remoteCalls, uncaught>>

(***************************************************************************)
(* Admin page: pages/admin/CarsManagement.tsx.  The form is modelled by    *)
(* its name, type and image; its other fields are set and reset by the     *)
(* same statements.  The backend table is a set of rows.                   *)
(***************************************************************************)
emptyForm == [name |-> "", type |-> "", image |-> ""]

CarIds == {"c1"}
NameInputs == {"", "Prado"}
TypeInputs == {"", "SUV"}
ImageInputs == {"typed.jpg"}
publicUrl == "uploaded.jpg"

Row(id, payload) ==
    [id |-> id, name |-> payload.name, type |-> payload.type,
     image |-> payload.image]

\* state of the page before it is mounted: the useState initial values
AdminNotMounted ==
    /\ open = FALSE
    /\ editId = <<>>
    /\ form = emptyForm
    /\ uploading = FALSE
    /\ adminCars = {}
    /\ toast = ""
    /\ uploads = 0
    /\ saves = {}
    /\ fetching = 0
    /\ db = {}

AdminFrame == UNCHANGED bookingVars

\* DialogTrigger: onOpenChange(true)
OpenDialog ==
    /\ ~open
    /\ open' = TRUE
    /\ toast' = ""
    /\ UNCHANGED <<editId, form, uploading, adminCars, uploads, saves,
                   fetching, db>>
    /\ AdminFrame

\* onOpenChange(false): overlay click, escape key, close button
CloseDialog ==
    /\ open
    /\ open' = FALSE
    /\ editId' = <<>>
    /\ form' = emptyForm
    /\ toast' = ""
    /\ UNCHANGED <<uploading, adminCars, uploads, saves, fetching, db>>
    /\ AdminFrame

\* the inputs of the dialog: setForm({ ...form, field: value })
EditForm ==
    /\ open
    /\ \/ \E v \in NameInputs : form' = [form EXCEPT !.name = v]
       \/ \E v \in TypeInputs : form' = [form EXCEPT !.type = v]
       \/ \E v \in ImageInputs : form' = [form EXCEPT !.image = v]
       \/ form.image # "" /\ form' = [form EXCEPT !.image = ""]
    /\ toast' = ""
    /\ UNCHANGED <<open, editId, uploading, adminCars, uploads, saves,
                   fetching, db>>
    /\ AdminFrame

\* the Edit button of a card of the list (the list is behind the dialog)
handleEdit ==
    /\ ~open
    /\ \E car \in adminCars :
          /\ form' = [name |-> car.name, type |-> car.type, image |-> car.image]
          /\ editId' = <<car.id>>
    /\ open' = TRUE
    /\ toast' = ""
    /\ UNCHANGED <<uploading, adminCars, uploads, saves, fetching, db>>
    /\ AdminFrame

\* handleFileUpload up to its await
handleFileUpload ==
    /\ open
    /\ \E isImage \in BOOLEAN :
          IF ~isImage
          THEN /\ toast' = "Invalid file"
               /\ UNCHANGED <<uploading, uploads>>
          ELSE /\ uploads < MaxUploads
               /\ uploading' = TRUE
               /\ uploads' = uploads + 1
               /\ toast' = ""
    /\ UNCHANGED <<open, editId, form, adminCars, saves, fetching, db>>
    /\ AdminFrame

\* handleFileUpload after its await: the upload failed or gave a path
handleFileUploadResume ==
    /\ uploads > 0
    /\ \E error \in BOOLEAN :
          IF error
          THEN /\ toast' = "Upload failed"
               /\ form' = form
          ELSE /\ form' = [form EXCEPT !.image = publicUrl]
               /\ toast' = "Image uploaded successfully"
    /\ uploading' = FALSE
    /\ uploads' = uploads - 1
    /\ UNCHANGED <<open, editId, adminCars, saves, fetching, db>>
    /\ AdminFrame

payload == [name |-> form.name, type |-> form.type, image |-> form.image]

\* handleSave up to its await; the button is disabled while uploading
handleSave ==
    /\ open /\ ~uploading
    /\ IF form.name = "" \/ form.type = ""
       THEN /\ toast' = "Missing fields"
            /\ saves' = saves
       ELSE /\ Cardinality(saves) < MaxSaves
            /\ saves' = saves \cup {[editId |-> editId, payload |-> payload]}
            /\ toast' = ""
    /\ UNCHANGED <<open, editId, form, uploading, adminCars, uploads,
                   fetching, db>>
    /\ AdminFrame

\* the table after the request s was applied
Applied(s) ==
    IF s.editId # <<>>
    THEN {IF r.id = s.editId[1] THEN Row(r.id, s.payload) ELSE r : r \in db}
    ELSE LET free == CarIds \ {r.id : r \in db}
         IN  db \cup {Row(CHOOSE id \in free : TRUE, s.payload)}

\* a save that closes the dialog whatever the backend answered
handleSaveResume_ClosesOnError ==
    /\ \E s \in saves :
          /\ saves' = saves \ {s}
          /\ \E error \in BOOLEAN :
                IF error
                THEN /\ toast' = "Error"
                     /\ open' = FALSE
                     /\ UNCHANGED <<editId, form, fetching, db>>
                ELSE /\ fetching < MaxFetches
                     /\ s.editId = <<>> => CarIds \ {r.id : r \in db} # {}
                     /\ db' = Applied(s)
                     /\ toast' = IF s.editId # <<>>
                                 THEN "Car updated successfully"
                                 ELSE "Car added successfully"
                     /\ open' = FALSE
                     /\ editId' = <<>>
                     /\ form' = emptyForm
                     /\ fetching' = fetching + 1
    /\ UNCHANGED <<uploading, adminCars, uploads>>
    /\ AdminFrame

\* handleSave after its await: the backend answered with or without error
handleSaveResume ==
    /\ \E s \in saves :
          /\ saves' = saves \ {s}
          /\ \E error \in BOOLEAN :
                IF error
                THEN /\ toast' = "Error"
                     /\ UNCHANGED <<open, editId, form, fetching, db>>
                ELSE /\ fetching < MaxFetches
                     /\ s.editId = <<>> => CarIds \ {r.id : r \in db} # {}
                     /\ db' = Applied(s)
                     /\ toast' = IF s.editId # <<>>
                                 THEN "Car updated successfully"
                                 ELSE "Car added successfully"
                     /\ open' = FALSE
                     /\ editId' = <<>>
                     /\ form' = emptyForm
                     /\ fetching' = fetching + 1
    /\ UNCHANGED <<uploading, adminCars, uploads>>
    /\ AdminFrame

\* fetchCars after its await: setCars(data) when the select returned rows
fetchCarsResume ==
    /\ fetching > 0
    /\ fetching' = fetching - 1
    /\ \E hasData \in BOOLEAN : adminCars' = IF hasData THEN db ELSE adminCars
    /\ toast' = ""
    /\ UNCHANGED <<open, editId, form, uploading, uploads, saves, db>>
    /\ AdminFrame

\* the delete button of a card, confirmed
handleDelete ==
    /\ ~open
    /\ fetching < MaxFetches
    /\ \E car \in adminCars : db' = {r \in db : r.id # car.id}
    /\ toast' = "Car deleted"
    /\ fetching' = fetching + 1
    /\ UNCHANGED <<open, editId, form, uploading, adminCars, uploads, saves>>
    /\ AdminFrame

\* the admin page right after its first render: the mount effect has called
\* fetchCars; the Booking page is not shown
InitAdmin ==
    /\ open = FALSE
    /\ editId = <<>>
    /\ form = emptyForm
    /\ uploading = FALSE
    /\ adminCars = {}
    /\ toast = ""
    /\ uploads = 0
    /\ saves = {}
    /\ fetching = 1
    /\ db \in {{}, {Row("c1", [name |-> "Prado", type |-> "SUV", image |-> ""])}}
    /\ mounted = FALSE
    /\ mounts = 0
    /\ step = 0
    /\ booking = InitialBooking("")
    /\ isSubmitted = FALSE
    /\ isOnline = TRUE
    /\ storage = <<>>
    /\ now = StartNow
    /\ remoteAnswer = "success"
    /\ remoteCalls = <<>>
    /\ uncaught = ""

NextAdmin ==
    \/ OpenDialog
    \/ CloseDialog
    \/ EditForm
    \/ handleEdit
    \/ handleFileUpload
    \/ handleFileUploadResume
    \/ handleSave
    \/ handleSaveResume
    \/ fetchCarsResume
    \/ handleDelete

AdminSpec == InitAdmin /\ [][NextAdmin]_vars

Init ==
    /\ mounted = TRUE
    /\ mounts = 1
    /\ step = 0
    /\ \E car \in UrlCarParams : booking = InitialBooking(car)
    /\ isSubmitted = FALSE
    /\ isOnline \in BOOLEAN
    /\ storage = <<>>
    /\ now = StartNow
    /\ remoteAnswer = "success"
    /\ remoteCalls = <<>>
    /\ uncaught = ""
    /\ AdminNotMounted

Next ==
    \/ Advance
    \/ Retreat
    \/ SelectCar
    \/ EditPickup
    \/ EditDropoff
    \/ SelectDate
    \/ SelectTime
    \/ SelectDuration
    \/ handleSubmit
    \/ Mount
    \/ Unmount
    \/ GoOnline
    \/ GoOffline
    \/ Tick
    \/ SetRemoteAnswer

Spec == Init /\ [][Next]_vars

TypeOK ==
    /\ mounted \in BOOLEAN
    /\ step \in 0..(Len(STEPS) - 1)
    /\ isSubmitted \in BOOLEAN
    /\ isOnline \in BOOLEAN
    /\ Len(storage) <= 1
    /\ uncaught \in {"", "QuotaExceededError"}

(***************************************************************************)
(* Vocabulary of the properties                                            *)
(***************************************************************************)
\* a step in which the Confirm button's handler ran
SubmitStep == mounted /\ ~isSubmitted /\ isSubmitted'

\* records the remote booking API has acknowledged
RemoteAccepted ==
    {remoteCalls[i][1] : i \in {j \in 1..Len(remoteCalls) : remoteCalls[j][2] = "success"}}

\* the required-field table of the wizard, per step
StepRequirement ==
    CASE step = 0 -> booking.carId \in cars
      [] step = 1 -> booking.pickupLocation # "" /\ booking.dropoffLocation # ""
      [] step = 2 -> /\ booking.date # <<>>
                     /\ booking.date[1] >= Today
                     /\ booking.time # ""
                     /\ booking.duration \in 1..MaxDuration
      [] OTHER -> TRUE

\* a queued record carries every required field, valid
RecordComplete(r) ==
    /\ r.carId \in cars
    /\ r.pickupLocation # ""
    /\ r.dropoffLocation # ""
    /\ r.date # <<>>
    /\ r.time # ""
    /\ r.duration \in 1..MaxDuration

\* r is the snapshot of the current draft taken at the current instant
SnapshotOfDraft(r) ==
    /\ r.carId = booking.carId
    /\ r.pickupLocation = booking.pickupLocation
    /\ r.dropoffLocation = booking.dropoffLocation
    /\ booking.date # <<>>
    /\ r.date = <<toISOString(booking.date[1] * HoursPerDay - TzOffsetHours)>>
    /\ r.time = booking.time
    /\ r.duration = booking.duration
    /\ (booking.carId \in cars => r.price = pricePerHour[booking.carId] * booking.duration)
    /\ r.createdAt = toISOString(now)

(***************************************************************************)
(* C1  A record leaves the pending queue only after the remote booking API *)
(* acknowledged a submission of that very record.                          *)
(***************************************************************************)
C1_RemovedOnlyAfterRemoteSuccess ==
    [][\A i \in 1..Len(Queue) :
          (~ \E j \in 1..Len(Queue') : Queue'[j] = Queue[i])
              => Queue[i] \in RemoteAccepted']_vars

(***************************************************************************)
(* C2  The Next button moves the wizard forward only when the current      *)
(* step's required-field predicate holds (known vehicle; both locations;   *)
(* date >= today, time, duration in 1..24).                                *)
(***************************************************************************)
C2_AdvanceOnlyWhenStepValid ==
    [][(mounted /\ mounted' /\ ~isSubmitted /\ step' > step) => StepRequirement]_vars

(***************************************************************************)
(* C3  Whenever the wizard is at the confirm step, vehicle, pickup,        *)
(* dropoff, date and time are all set.                                     *)
(***************************************************************************)
C3_ConfirmingHasAllFields ==
    (mounted /\ step = Len(STEPS) - 1) =>
        /\ booking.carId # ""
        /\ booking.pickupLocation # ""
        /\ booking.dropoffLocation # ""
        /\ booking.date # <<>>
        /\ booking.time # ""

\* the confirm step, reached with a date picked and the form still open
C3_Witness ==
    /\ mounted /\ ~isSubmitted /\ step = Len(STEPS) - 1
    /\ booking.pickupLocation = "Kigali" /\ booking.date = <<MaxDay>>

(***************************************************************************)
(* C4  An offline submit appends exactly one record, the snapshot of the   *)
(* draft, to the pending queue, shows the wizard as submitted in the same  *)
(* step, and makes no remote booking API call.                             *)
(***************************************************************************)
C4_OfflineSubmitQueuesSnapshot ==
    [][(SubmitStep /\ ~isOnline) =>
          /\ Len(Queue') = Len(Queue) + 1
          /\ SubSeq(Queue', 1, Len(Queue)) = Queue
          /\ SnapshotOfDraft(Queue'[Len(Queue')])
          /\ isSubmitted'
          /\ remoteCalls' = remoteCalls]_vars

\* vehicle v1 for 3 hours at 20 per hour, submitted offline: price 60 queued
C4_Witness ==
    /\ mounted /\ isSubmitted /\ ~isOnline
    /\ Len(Queue) = 1
    /\ Queue[1].carId = "v1" /\ Queue[1].duration = 3 /\ Queue[1].price = 60

(***************************************************************************)
(* C5  An online submit hands the record to the remote booking API and     *)
(* shows the wizard as submitted only once the API accepted it.            *)
(***************************************************************************)
C5_OnlineSubmitNeedsAcceptance ==
    [][(SubmitStep /\ isOnline) =>
          \E r \in RemoteAccepted' : SnapshotOfDraft(r)]_vars

(***************************************************************************)
(* C6  While connectivity is online and the remote booking API rejects     *)
(* writes, a submit does not show the wizard as submitted: it stays at the *)
(* confirm step with the draft unchanged.                                  *)
(***************************************************************************)
C6_RejectedSubmitStaysConfirming ==
    [][(mounted /\ ~isSubmitted /\ step = Len(STEPS) - 1
          /\ isOnline /\ remoteAnswer = "rejected" /\ mounted')
            => ~isSubmitted']_vars

(***************************************************************************)
(* C7  A submit made while online leaves the pending queue as it was; the  *)
(* queue grows only by a submit made while offline.                        *)
(***************************************************************************)
C7_OnlineSubmitLeavesQueue ==
    [][/\ (SubmitStep /\ isOnline) => storage' = storage
       /\ (storage' # storage /\ Len(Queue') > Len(Queue))
              => (SubmitStep /\ ~isOnline)]_vars

\* submitted with nothing ever written to localStorage: the submit was online
C7_Witness ==
    mounted /\ isSubmitted /\ isOnline /\ storage = <<>>

(***************************************************************************)
(* C8  Every record in the pending queue or handed to the remote API has   *)
(* a known vehicle, both locations, a date, a time and a duration 1..24.   *)
(***************************************************************************)
C8_QueuedRecordsComplete ==
    /\ \A i \in 1..Len(Queue) : RecordComplete(Queue[i])
    /\ \A i \in 1..Len(remoteCalls) : RecordComplete(remoteCalls[i][1])

(***************************************************************************)
(* C9  For a known vehicle, the price shown at the confirm step and the    *)
(* price stored in a submitted record equal the hourly rate times the      *)
(* duration of the current vehicle and duration.                           *)
(***************************************************************************)
C9_PriceIsRateTimesDuration ==
    /\ (mounted /\ booking.carId \in cars) =>
          calculatePrice = pricePerHour[booking.carId] * booking.duration
    /\ \A i \in 1..Len(Queue) :
          Queue[i].carId \in cars =>
              Queue[i].price = pricePerHour[Queue[i].carId] * Queue[i].duration

\* vehicle changed to v2 and duration changed to 24 before the submit
C9_Witness ==
    /\ Len(Queue) >= 1
    /\ Queue[1].carId = "v2" /\ Queue[1].duration = MaxDuration
    /\ Queue[1].price = 35 * MaxDuration

(***************************************************************************)
(* C10  While remote submissions fail, a drain pass removes nothing: every *)
(* queued record stays in the queue at its position.                       *)
(***************************************************************************)
C10_FailedDrainKeepsQueue ==
    [][remoteAnswer # "success" =>
          \A i \in 1..Len(Queue) :
              i <= Len(Queue') /\ Queue'[i] = Queue[i]]_vars

(***************************************************************************)
(* Vocabulary of the drain properties                                      *)
(***************************************************************************)
\* a step in which the sync effect ran with isOnline true and found records
DrainStep ==
    /\ mounted' /\ isOnline'
    /\ (~isOnline \/ ~mounted)
    /\ storage # <<>> /\ Len(Queue) > 0

\* number of createBooking calls made for record r
CallsFor(calls, r) == Cardinality({j \in 1..Len(calls) : calls[j][1] = r})

\* number of positions of the queue q holding record r
CopiesIn(q, r) == Cardinality({j \in 1..Len(q) : q[j] = r})

(***************************************************************************)
(* C11  When connectivity returns with records queued and the remote API   *)
(* accepting, the drain leaves the queue empty and each queued record has  *)
(* been submitted to the remote booking API exactly once.                  *)
(***************************************************************************)
C11_DrainDeliversEachOnce ==
    [][(DrainStep /\ remoteAnswer = "success") =>
          /\ Queue' = <<>>
          /\ \A i \in 1..Len(Queue) : CallsFor(remoteCalls', Queue[i]) = 1]_vars

(***************************************************************************)
(* C12  A drain pass attempts the queued records in enqueue order: the     *)
(* submission of an earlier record is attempted before that of a later.    *)
(***************************************************************************)
C12_DrainAttemptsInEnqueueOrder ==
    [][(DrainStep /\ Len(Queue) >= 2) =>
          \A i, j \in 1..Len(Queue) :
              i < j =>
                  \E a, b \in (Len(remoteCalls) + 1)..Len(remoteCalls') :
                      /\ a < b
                      /\ remoteCalls'[a][1] = Queue[i]
                      /\ remoteCalls'[b][1] = Queue[j]]_vars

\* the queue itself is kept in enqueue order (ascending creation instant)
QueueInEnqueueOrder ==
    \A i, j \in 1..Len(Queue) :
        i < j => \/ Queue[i].createdAt[1] < Queue[j].createdAt[1]
                 \/ /\ Queue[i].createdAt[1] = Queue[j].createdAt[1]
                    /\ Queue[i].createdAt[2] <= Queue[j].createdAt[2]

(***************************************************************************)
(* C13  Once the wizard shows Submitted, that page instance stays          *)
(* Submitted with its step and fields frozen; a page instance always       *)
(* starts at the first step, not submitted.                                *)
(***************************************************************************)
C13_SubmittedIsTerminal ==
    [][/\ (mounted /\ isSubmitted /\ mounted') =>
              (isSubmitted' /\ step' = step /\ booking' = booking)
       /\ (~mounted /\ mounted') => (step' = 0 /\ ~isSubmitted')]_vars

\* submitted offline in the first visit, and connectivity came back afterwards
C13_Witness ==
    mounted /\ isSubmitted /\ mounts = 1 /\ isOnline /\ storage = <<<<>>>>

(***************************************************************************)
(* C14  The Previous button is enabled exactly at the steps after the      *)
(* first one, moves back by one step, changes no field, and leaves the     *)
(* Next button enabled so that the wizard can return to the step it left.  *)
(***************************************************************************)
C14_RetreatKeepsFields ==
    /\ [](ENABLED Retreat <=> (mounted /\ ~isSubmitted /\ step \in 1..(Len(STEPS) - 1)))
    /\ [][(mounted /\ mounted' /\ step' < step) =>
              /\ ~isSubmitted
              /\ step' = step - 1
              /\ booking' = booking
              /\ canProceed']_vars

\* back at the first step with the locations and the date still filled in
C14_Witness ==
    /\ mounted /\ ~isSubmitted /\ step = 0
    /\ booking.pickupLocation = "Kigali" /\ booking.dropoffLocation = "Kigali"
    /\ booking.date # <<>>

(***************************************************************************)
(* C15  The wizard is linear: the step index stays within 0..3, every      *)
(* transition of a page instance moves it by at most one position, and     *)
(* Submitted is entered only from the confirm step, which it keeps.        *)
(***************************************************************************)
C15_WizardIsLinear ==
    /\ [](step \in 0..(Len(STEPS) - 1))
    /\ [][(mounted /\ mounted') =>
              /\ step' \in {step - 1, step, step + 1}
              /\ (~isSubmitted /\ isSubmitted') =>
                     (step = Len(STEPS) - 1 /\ step' = step)]_vars

\* Submitted, reached at the confirm step
C15_Witness ==
    mounted /\ isSubmitted /\ step = Len(STEPS) - 1 /\ booking.time = "09:00"

(***************************************************************************)
(* C16  The pending records survive a restart of the page: across a        *)
(* teardown or a new start every record not yet acknowledged by the remote *)
(* API is still in the queue at its position.                              *)
(***************************************************************************)
C16_QueueSurvivesRestart ==
    [][(mounted # mounted') =>
          \A i \in 1..Len(Queue) :
              \/ Queue[i] \in RemoteAccepted'
              \/ (i <= Len(Queue') /\ Queue'[i] = Queue[i])]_vars

(***************************************************************************)
(* C18  Running the sync twice with no enqueue in between submits nothing  *)
(* twice: the records a pass handled are no longer queued, a second pass   *)
(* over the result changes nothing, and no record has two remote calls.    *)
(***************************************************************************)
C18_DrainIsIdempotent ==
    [][(mounted' /\ isOnline' /\ (~isOnline \/ ~mounted)) =>
          /\ \A i \in 1..Len(Queue) : CopiesIn(Queue', Queue[i]) = 0
          /\ SyncStorage(TRUE, storage') = storage'
          /\ \A j \in 1..Len(remoteCalls') :
                 CallsFor(remoteCalls', remoteCalls'[j][1]) = 1]_vars

\* second visit, online, the list already emptied by a sync
C18_Witness ==
    /\ mounted /\ mounts = 2 /\ isOnline /\ ~isSubmitted
    /\ storage = <<<<>>>>

(***************************************************************************)
(* C20  No step loses or duplicates a record: a queued record stays in the *)
(* queue or is delivered to the remote API, and the copies of a record     *)
(* (queued plus delivered) grow only by the offline submit that adds it.   *)
(***************************************************************************)
Held(q, calls, r) ==
    CopiesIn(q, r) + Cardinality({j \in 1..Len(calls) : calls[j] = <<r, "success">>})

C20_NoRecordLostOrDuplicated ==
    [][(storage' # storage \/ remoteCalls' # remoteCalls) =>
          /\ \A i \in 1..Len(Queue) :
                 Held(Queue', remoteCalls', Queue[i]) >= Held(Queue, remoteCalls, Queue[i])
          /\ \A i \in 1..Len(Queue') :
                 Held(Queue', remoteCalls', Queue'[i]) <=
                     Held(Queue, remoteCalls, Queue'[i])
                         + (IF SubmitStep /\ ~isOnline THEN 1 ELSE 0)]_vars

C21_ReconnectAttemptsEachRecord ==
    [][(~isOnline /\ isOnline' /\ mounted /\ storage # <<>>) =>
          \A i \in 1..Len(Queue) :
              \E a \in (Len(remoteCalls) + 1)..Len(remoteCalls') :
                  remoteCalls'[a][1] = Queue[i]]_vars

(***************************************************************************)
(* C22  An offline submit appends its record at the tail of the persisted  *)
(* queue and grows it by exactly one; no step changes the content or the   *)
(* position of a record that stays queued, whatever happens to the draft,  *)
(* and only an offline submit makes the queue longer.                      *)
(***************************************************************************)
C22_EnqueueAppendsAtTail ==
    [][/\ (SubmitStep /\ ~isOnline) =>
              /\ Len(Queue') = Len(Queue) + 1
              /\ SubSeq(Queue', 1, Len(Queue)) = Queue
              /\ Queue'[Len(Queue')] = bookingData
       /\ (storage' # storage) =>
              /\ \A i \in 1..Len(Queue) :
                     i <= Len(Queue') => Queue'[i] = Queue[i]
              /\ Len(Queue') > Len(Queue) => (SubmitStep /\ ~isOnline)]_vars

\* two different records queued one after the other, by two visits
C22_Witness ==
    /\ mounted /\ isSubmitted /\ ~isOnline
    /\ storage # <<>>
    /\ Len(Queue) = 2
    /\ Queue[1] # Queue[2]
    /\ Queue[2] = bookingData

(***************************************************************************)
(* C23  While a required field of the current step is empty, the advance   *)
(* is blocked and the form names a missing field: at the location step     *)
(* with the dropoff location empty it names dropoffLocation.               *)
(***************************************************************************)
RequiredMissing ==
    CASE step = 0 -> {f \in {"carId"} : booking.carId = ""}
      [] step = 1 -> {f \in {"pickupLocation", "dropoffLocation"} : booking[f] = ""}
      [] step = 2 -> {f \in {"date"} : booking.date = <<>>}
                     \cup {f \in {"time"} : booking.time = ""}
      [] OTHER -> {}

C23_BlockedAdvanceNamesField ==
    (FormShown /\ RequiredMissing # {}) =>
        /\ ~canProceed
        /\ MissingFieldsShown \cap RequiredMissing # {}
        /\ (step = 1 /\ booking.dropoffLocation = "" /\ booking.pickupLocation # "")
               => "dropoffLocation" \in MissingFieldsShown

C25_UnreachableSubmitIsQueued ==
    [][(SubmitStep /\ (~isOnline \/ remoteAnswer = "unreachable")) =>
          /\ Queue' = Append(Queue, bookingData)
          /\ SubmittedNotice' = "booking.offlineMessage"
          /\ uncaught' = ""]_vars

(***************************************************************************)
(* C26  The duration of the draft is always a whole number of hours from   *)
(* 1 to 24, and so is the duration of every queued record.                 *)
(***************************************************************************)
C26_DurationInRange ==
    /\ booking.duration \in 1..MaxDuration
    /\ storage # <<>> =>
          LET queue == Queue
          IN  \A i \in 1..Len(queue) : queue[i].duration \in 1..MaxDuration

\* a record queued with the longest duration
C26_Witness ==
    /\ mounted /\ isSubmitted
    /\ booking.duration = MaxDuration
    /\ storage # <<>>
    /\ Len(Queue) >= 1
    /\ Queue[Len(Queue)].duration = MaxDuration

(***************************************************************************)
(* C27  The sync runs whenever the page comes to see connectivity as       *)
(* online, at mount as well as on an offline->online transition, and       *)
(* leaves the queue empty; a step that ends offline removes no record.     *)
(***************************************************************************)
C27_SyncRunsWheneverOnline ==
    [][/\ (mounted' /\ isOnline' /\ (~mounted \/ ~isOnline)) =>
              Len(ReadPending(storage')) = 0
       /\ (~isOnline' /\ storage' # storage) =>
              \A i \in 1..Len(Queue) :
                  i <= Len(Queue') /\ Queue'[i] = Queue[i]]_vars

\* a second visit that started online on the draft of car v1, the list emptied
C27_Witness ==
    /\ mounted /\ mounts = 2 /\ isOnline
    /\ step = 0 /\ booking = InitialBooking("v1")
    /\ storage = <<<<>>>>

(***************************************************************************)
(* C28  The success screen shows the offline notice exactly while          *)
(* connectivity is offline, whatever it was when the booking was           *)
(* submitted.                                                              *)
(***************************************************************************)
C28_NoticeFollowsConnectivity ==
    (mounted /\ isSubmitted) =>
        (SubmittedNotice = "booking.offlineMessage" <=> ~isOnline)

\* submitted online (nothing was ever stored), connectivity lost afterwards
C28_Witness ==
    /\ mounted /\ isSubmitted /\ ~isOnline
    /\ storage = <<>>
    /\ SubmittedNotice = "booking.offlineMessage"

(***************************************************************************)
(* C29  Admin car form: a save that fails (name or type empty, or the      *)
(* backend answers with an error) leaves the dialog, the form and editId   *)
(* as they were and starts no list fetch; a save that succeeds closes the  *)
(* dialog, sets editId to null and the form to the empty form, and starts  *)
(* one list fetch.                                                         *)
(***************************************************************************)
SaveSucceededToasts == {"Car updated successfully", "Car added successfully"}

SaveFailedToasts == {"Missing fields", "Error"}

C29_OnlySuccessfulSaveCloses ==
    [][(saves' # saves \/ toast' \in SaveSucceededToasts \cup SaveFailedToasts) =>
          IF toast' \in SaveSucceededToasts
          THEN /\ ~open' /\ editId' = <<>> /\ form' = emptyForm
               /\ fetching' = fetching + 1
          ELSE /\ open' = open /\ editId' = editId /\ form' = form
               /\ fetching' = fetching
               /\ adminCars' = adminCars /\ db' = db]_vars

\* the update of car c1 was refused while the dialog shows an uploaded image
C29_Witness ==
    /\ open /\ toast = "Error"
    /\ editId = <<"c1">>
    /\ form = [name |-> "Prado", type |-> "SUV", image |-> publicUrl]

(***************************************************************************)
(* C30  Admin car form: after every step, a closed dialog has the empty    *)
(* form and a null editId, whatever the interleaving of open, edit, close, *)
(* save and image upload; and uploading is false after every upload that   *)
(* has finished.                                                           *)
(***************************************************************************)
C30_ClosedDialogHasEmptyForm ==
    [][/\ ~open' => (form' = emptyForm /\ editId' = <<>>)
       /\ uploads' < uploads => ~uploading']_vars

\* the upload flag alone: false after every upload that has finished
UploadingClearedAfterUpload == [][uploads' < uploads => ~uploading']_vars

====
